---- MODULE Spec2Model ----
(***************************************************************************)
(* Model of src/load_song_and_extract_features.py: the coordinator script  *)
(* (clear output, start daemon workers, pre-scan, enqueue, q.join) and the *)
(* worker loop `processor` with the per-song job `processor_job`.          *)
(*                                                                         *)
(* The external collaborators (eyed3 metadata read, librosa decode/MFCC,   *)
(* the file system) are inputs: each listed file carries the outcome each  *)
(* collaborator has on it.  The ten formatted MFCC coefficients of one     *)
(* analysis frame are carried as one field of the row.                     *)
(***************************************************************************)
EXTENDS Integers, Sequences, FiniteSets, TLC

\* ---------------------------------------------------------------- bounds
MaxFiles == 2      \* directory listings of at most this many files
MaxFrames == 2     \* analysis frames per decoded song

\* ------------------------------------------------------ program constants
min_song_length == 120
\* The script's pool size (line 36).  The specification makes the pool size a
\* configuration option, so every pool size from 1 up to the script's value
\* is run.
num_workers == 2

\* ------------------------------------------------------------------ input
Durations == {min_song_length - 1, min_song_length, min_song_length + 1}

\* One file of the listing: its name's last three characters, and what the
\* metadata reader, the decoder and the output append do for it.
\*   meta   : "ok" or "MetadataError"      (eyed3 load / tag access)
\*   length : eyed3 info.time_secs
\*   decode : "ok" or "DecodeError"        (librosa load / mfcc)
\*   frames : rows of the MFCC matrix
\*   write  : "ok", "EncodingError" (csv writerow cannot encode a field) or
\*            "SinkWriteError" (open(output_csv, 'a') fails), at frame failAt
FileKinds ==
    {[suffix |-> "wav", meta |-> "ok", length |-> min_song_length + 1,
      decode |-> "ok", frames |-> 1, write |-> "ok", failAt |-> 0]}
  \cup
    {[suffix |-> "mp3", meta |-> "MetadataError", length |-> min_song_length - 1,
      decode |-> "ok", frames |-> 1, write |-> "ok", failAt |-> 0]}
  \cup
    {[suffix |-> "mp3", meta |-> "ok", length |-> min_song_length - 1,
      decode |-> dc, frames |-> 1, write |-> "ok", failAt |-> 0]
        : dc \in {"ok", "DecodeError"}}
  \cup
    {[suffix |-> "mp3", meta |-> "ok", length |-> min_song_length + 1,
      decode |-> "DecodeError", frames |-> 1, write |-> "ok", failAt |-> 0]}
  \cup
    {[suffix |-> "mp3", meta |-> "ok", length |-> min_song_length,
      decode |-> "ok", frames |-> 1, write |-> "ok", failAt |-> 0]}
  \cup
    {[suffix |-> "mp3", meta |-> "ok", length |-> min_song_length + 1,
      decode |-> "ok", frames |-> MaxFrames, write |-> "ok", failAt |-> 0]}
  \cup
    {[suffix |-> "mp3", meta |-> "ok", length |-> min_song_length + 1,
      decode |-> "ok", frames |-> 1, write |-> "EncodingError", failAt |-> 1]}
  \cup
    {[suffix |-> "mp3", meta |-> "ok", length |-> min_song_length + 1,
      decode |-> "ok", frames |-> MaxFrames, write |-> "SinkWriteError", failAt |-> k]
        : k \in 1..MaxFrames}

Listings == UNION {[1..n -> FileKinds] : n \in 0..MaxFiles}

\* What a previous run may have left in output_csv.
StaleField == [field |-> "stale", val |-> 0, frame |-> 0]

VARIABLES
    files,                  \* the os.walk listing of itunes_dir (input)
    pool_size,              \* processes started by the loop of line 185
    pcMain,                 \* the coordinator's position in the script
    x,                      \* workers started so far (loop of line 185)
    i,                      \* position of either walk in the listing
    total_songs,            \* line 198
    current_song_counter,   \* line 207
    q,                      \* JoinableQueue: descriptors put and not yet got
    unfinished,             \* JoinableQueue's count of unfinished tasks
    error_counter,          \* Value('i', 0)
    lock,                   \* Lock(): 0 when free, else the holding worker
    output,                 \* output_csv: the fields written, in file order
    pc,                     \* each worker's position in processor
    worker,                 \* each worker's current descriptor
    frame,                  \* each worker's position in song.mfcc_flat
    wbuf,                   \* each worker's open file: writes still to issue
    tmp,                    \* each worker's read of error_counter.value
    raised,                 \* the exception in flight in each worker
    gets,                   \* history: q.get() returns per sequence number
    dones,                  \* history: q.task_done() calls per sequence number
    outcome,                \* history: how each processing of a job ended
    extracted,              \* history: jobs librosa_mfcc_extract was called for
    logged                  \* the "errors so far" of the latest INFO line, if any

vars == <<files, pool_size, pcMain, x, i, total_songs, current_song_counter,
          q, unfinished, error_counter, lock, output, pc, worker, frame, wbuf,
          tmp, raised, gets, dones, outcome, extracted, logged>>

mainVars == <<pcMain, x, i, total_songs, current_song_counter>>
inputVars == <<files, pool_size>>
histVars == <<gets, dones, outcome, extracted, logged>>

WorkerIds == 1..num_workers
SeqNums == 1..MaxFiles

NoJob == [file_path |-> 0, file |-> 0, counter |-> 0, total |-> 0, num_workers |-> 0]

\* ---------------------------------------------------------------- helpers
\* file[-3:] == 'mp3' (line 202) and file_path[-3:] == 'mp3' (line 214)
IsMp3(f) == f.suffix = "mp3"

\* Mutants: a strict comparison; no length test at all.
FlagToAnalyzeStrict(len) == len > min_song_length
FlagToAnalyzeAlways(len) == TRUE

\* self.mp3_length >= min_song_length (line 91)
FlagToAnalyze(len) == len >= min_song_length

\* Mutant: the row is numbered by the file's place in the walk.
RowNumberedByPath(d, k) ==
    << [field |-> "counter", val |-> d.file_path, frame |-> 0],
       [field |-> "title",   val |-> d.file_path, frame |-> 0],
       [field |-> "artist",  val |-> d.file_path, frame |-> 0],
       [field |-> "genre",   val |-> d.file_path, frame |-> 0],
       [field |-> "mfcc",    val |-> d.file_path, frame |-> k] >>

\* The row of one analysis frame (lines 152-153).
Row(d, k) ==
    << [field |-> "counter", val |-> d.counter,   frame |-> 0],
       [field |-> "title",   val |-> d.file_path, frame |-> 0],
       [field |-> "artist",  val |-> d.file_path, frame |-> 0],
       [field |-> "genre",   val |-> d.file_path, frame |-> 0],
       [field |-> "mfcc",    val |-> d.file_path, frame |-> k] >>

\* Mutant: an unbuffered file, one write call per field.
WriteChunksPerField(row) == [j \in 1..Len(row) |-> <<row[j]>>]

\* The write calls one writerow + close issues on the file: the row is
\* buffered by the file object and written whole when the with-block closes
\* it (lines 154-156).
WriteChunks(row) == <<row>>

\* Mutant: the row loop opens the output in mode 'w', truncating it.
TruncatingWrite(file, chunk) == chunk

\* A write on a file opened in mode 'a' lands at the current end of the file.
AppendWrite(file, chunk) == file \o chunk

\* Mutants: an except clause that lets one kind of failure through.
CaughtButDecode(kind) == kind \in {"MetadataError", "EncodingError", "SinkWriteError"}
CaughtButSink(kind) == kind \in {"MetadataError", "DecodeError", "EncodingError"}

\* except Exception (line 174): every failure the job can raise is caught.
Caught(kind) == kind \in {"MetadataError", "DecodeError", "EncodingError", "SinkWriteError"}

\* Mutant: the increment is not guarded (no `with lock`).
LockNeverBlocks == TRUE

\* with lock (line 176) blocks until the lock is free.
LockAvailable == lock = 0

\* Mutant: a put that does not count the task (a plain Queue's put).
TasksAfterPutUncounted(n) == n

\* q.put (line 216) counts the descriptor as one more unfinished task.
TasksAfterPut(n) == n + 1

\* Mutant: a join that only waits for the queue to be empty.
JoinReturnsOnEmptyQueue == q = <<>>

\* q.join() (line 223) returns when the count of unfinished tasks is zero.
JoinReturns == unfinished = 0

\* ------------------------------------------------------------------- Init
Init ==
    /\ files \in Listings
    /\ pool_size \in 1..num_workers
    /\ pcMain = "clear"
    /\ x = 0
    /\ i = 1
    /\ total_songs = 0
    /\ current_song_counter = 1
    /\ q = <<>>
    /\ unfinished = 0
    /\ error_counter = 0
    /\ lock = 0
    /\ output \in {<<>>, <<StaleField>>}
    /\ pc = [w \in WorkerIds |-> "unstarted"]
    /\ worker = [w \in WorkerIds |-> NoJob]
    /\ frame = [w \in WorkerIds |-> 0]
    /\ wbuf = [w \in WorkerIds |-> <<>>]
    /\ tmp = [w \in WorkerIds |-> 0]
    /\ raised = [w \in WorkerIds |-> "none"]
    /\ gets = [n \in SeqNums |-> 0]
    /\ dones = [n \in SeqNums |-> 0]
    /\ outcome = [n \in SeqNums |-> <<>>]
    /\ extracted = {}
    /\ logged = <<>>

\* ------------------------------------------------------------ coordinator
\* open(output_csv, 'w').close()  (line 76)
ClearOutput ==
    /\ pcMain = "clear"
    /\ output' = <<>>
    /\ pcMain' = "start"
    /\ UNCHANGED <<inputVars, x, i, total_songs, current_song_counter, q,
                   unfinished, error_counter, lock, pc, worker, frame, wbuf,
                   tmp, raised, histVars>>

\* One turn of the loop of lines 185-192: a daemon process running processor.
StartWorker ==
    /\ pcMain = "start"
    /\ x < pool_size
    /\ pc' = [pc EXCEPT ![x + 1] = "get"]
    /\ x' = x + 1
    /\ pcMain' = IF x + 1 = pool_size THEN "count" ELSE "start"
    /\ UNCHANGED <<inputVars, i, total_songs, current_song_counter, q,
                   unfinished, error_counter, lock, output, worker, frame, wbuf,
                   tmp, raised, histVars>>

\* Mutant: the pre-scan counts every file, whatever its extension.
CountAfterAnyFile(t, f) == t + 1

\* if file[-3:] == 'mp3': total_songs += 1  (lines 202-204)
CountAfter(t, f) == IF IsMp3(f) THEN t + 1 ELSE t

\* One file of the first walk (lines 199-204).
CountFile ==
    /\ pcMain = "count"
    /\ i <= Len(files)
    /\ total_songs' = CountAfter(total_songs, files[i])
    /\ i' = i + 1
    /\ UNCHANGED <<inputVars, pcMain, x, current_song_counter, q, unfinished,
                   error_counter, lock, output, pc, worker, frame, wbuf, tmp,
                   raised, histVars>>

\* The first walk is over; current_song_counter = 1 (line 207).
CountDone ==
    /\ pcMain = "count"
    /\ i > Len(files)
    /\ pcMain' = "enqueue"
    /\ i' = 1
    /\ current_song_counter' = 1
    /\ UNCHANGED <<inputVars, x, total_songs, q, unfinished, error_counter,
                   lock, output, pc, worker, frame, wbuf, tmp, raised, histVars>>

\* Mutant: the sequence number advances for every file of the walk.
NextCounterAnyFile(c, f) == c + 1

\* current_song_counter += 1, inside the mp3 test (lines 214-217)
NextCounter(c, f) == IF IsMp3(f) THEN c + 1 ELSE c

\* One file of the second walk (lines 208-217); q.put counts the task as
\* unfinished.
EnqueueFile ==
    /\ pcMain = "enqueue"
    /\ i <= Len(files)
    /\ IF IsMp3(files[i])
       THEN /\ q' = Append(q, [file_path |-> i, file |-> i,
                               counter |-> current_song_counter,
                               total |-> total_songs,
                               num_workers |-> pool_size])
            /\ unfinished' = TasksAfterPut(unfinished)
       ELSE UNCHANGED <<q, unfinished>>
    /\ current_song_counter' = NextCounter(current_song_counter, files[i])
    /\ i' = i + 1
    /\ UNCHANGED <<inputVars, pcMain, x, total_songs, error_counter, lock,
                   output, pc, worker, frame, wbuf, tmp, raised, histVars>>

EnqueueDone ==
    /\ pcMain = "enqueue"
    /\ i > Len(files)
    /\ pcMain' = "join"
    /\ UNCHANGED <<inputVars, x, i, total_songs, current_song_counter, q,
                   unfinished, error_counter, lock, output, pc, worker, frame,
                   wbuf, tmp, raised, histVars>>

\* q.join() returns (line 223).
Join ==
    /\ pcMain = "join"
    /\ JoinReturns
    /\ pcMain' = "done"
    /\ UNCHANGED <<inputVars, x, i, total_songs, current_song_counter, q,
                   unfinished, error_counter, lock, output, pc, worker, frame,
                   wbuf, tmp, raised, histVars>>

\* Mutant: the workers are ordinary (non-daemon) processes.
WorkersAreNotDaemons == FALSE

\* p.daemon = True  (line 189)
WorkersAreDaemons == TRUE

\* The script ends after line 223.  The exiting main process terminates its
\* daemon children; it would wait for a non-daemon child to end by itself.
Exit ==
    /\ pcMain = "done"
    /\ WorkersAreDaemons \/ \A w \in WorkerIds : pc[w] \in {"unstarted", "dead"}
    /\ pcMain' = "exited"
    /\ pc' = [w \in WorkerIds |-> IF pc[w] = "unstarted" THEN pc[w] ELSE "terminated"]
    /\ UNCHANGED <<inputVars, x, i, total_songs, current_song_counter, q,
                   unfinished, error_counter, lock, output, worker, frame, wbuf,
                   tmp, raised, histVars>>

\* ----------------------------------------------------------------- worker
\* Mutant: a get that reads the head of the queue without removing it.
DequeuePeek(queue) == queue

\* worker = q.get()  (line 164): blocks while the queue is empty, and takes
\* the descriptor off the queue.
Dequeue(queue) == Tail(queue)

Get(w) ==
    /\ pc[w] = "get"
    /\ q /= <<>>
    /\ worker' = [worker EXCEPT ![w] = Head(q)]
    /\ q' = Dequeue(q)
    /\ gets' = [gets EXCEPT ![Head(q).counter] = @ + 1]
    /\ pc' = [pc EXCEPT ![w] = "song"]
    /\ UNCHANGED <<inputVars, mainVars, unfinished, error_counter, lock, output,
                   frame, wbuf, tmp, raised, dones, outcome, extracted, logged>>

\* Mutants: a failure goes straight back to the top of the loop (task_done
\* only on the normal path), or straight to the finally clause (no count).
PcOnRaiseBackToLoop(kind) == "get"
PcOnRaiseUncounted(kind) == "finally"

\* Where control goes when the job raises `kind` inside the try of line 171.
PcOnRaise(kind) == IF Caught(kind) THEN "except" ELSE "finally"

\* The INFO line of line 172 (it shows error_counter.value), then
\* song = Song(file_path)  (lines 141, 82-99) and the test of line 145.
RunSong(w) ==
    /\ pc[w] = "song"
    /\ logged' = <<error_counter>>
    /\ LET d == worker[w]
           f == files[d.file_path]
       IN  IF f.meta /= "ok"
           THEN /\ raised' = [raised EXCEPT ![w] = f.meta]
                /\ pc' = [pc EXCEPT ![w] = PcOnRaise(f.meta)]
                /\ outcome' = [outcome EXCEPT ![d.counter] = Append(@, "failed")]
                /\ UNCHANGED <<frame, extracted>>
           ELSE IF FlagToAnalyze(f.length)
           THEN /\ extracted' = extracted \cup {d.counter}
                /\ IF f.decode /= "ok"
                   THEN /\ raised' = [raised EXCEPT ![w] = f.decode]
                        /\ pc' = [pc EXCEPT ![w] = PcOnRaise(f.decode)]
                        /\ outcome' = [outcome EXCEPT ![d.counter] = Append(@, "failed")]
                        /\ UNCHANGED frame
                   ELSE /\ frame' = [frame EXCEPT ![w] = 1]
                        /\ pc' = [pc EXCEPT ![w] = "write"]
                        /\ UNCHANGED <<raised, outcome>>
           ELSE /\ pc' = [pc EXCEPT ![w] = "finally"]
                /\ outcome' = [outcome EXCEPT ![d.counter] = Append(@, "skipped")]
                /\ UNCHANGED <<raised, frame, extracted>>
    /\ UNCHANGED <<inputVars, mainVars, q, unfinished, error_counter, lock,
                   output, worker, wbuf, tmp, gets, dones>>

\* One turn of the loop of line 151 up to writerow: build the row, open the
\* output for append, hand the row to the csv writer (lines 152-156).
OpenAppend(w) ==
    /\ pc[w] = "write"
    /\ LET d == worker[w]
           f == files[d.file_path]
           k == frame[w]
       IN  IF f.write /= "ok" /\ f.failAt = k
           THEN /\ raised' = [raised EXCEPT ![w] = f.write]
                /\ pc' = [pc EXCEPT ![w] = PcOnRaise(f.write)]
                /\ outcome' = [outcome EXCEPT ![d.counter] = Append(@, "failed")]
                /\ UNCHANGED wbuf
           ELSE /\ wbuf' = [wbuf EXCEPT ![w] = WriteChunks(Row(d, k))]
                /\ pc' = [pc EXCEPT ![w] = "flush"]
                /\ UNCHANGED <<raised, outcome>>
    /\ UNCHANGED <<inputVars, mainVars, q, unfinished, error_counter, lock,
                   output, worker, frame, tmp, gets, dones, extracted, logged>>

\* Leaving the with-block of line 154: the buffered row reaches the file;
\* after the last frame processor_job returns.
Flush(w) ==
    /\ pc[w] = "flush"
    /\ output' = AppendWrite(output, Head(wbuf[w]))
    /\ wbuf' = [wbuf EXCEPT ![w] = Tail(@)]
    /\ LET d == worker[w]
           f == files[d.file_path]
           k == frame[w]
       IN  IF Tail(wbuf[w]) /= <<>>
           THEN UNCHANGED <<pc, frame, outcome>>
           ELSE /\ frame' = [frame EXCEPT ![w] = k + 1]
                /\ IF k + 1 > f.frames
                   THEN /\ pc' = [pc EXCEPT ![w] = "finally"]
                        /\ outcome' = [outcome EXCEPT ![d.counter] = Append(@, "analyzed")]
                   ELSE /\ pc' = [pc EXCEPT ![w] = "write"]
                        /\ UNCHANGED outcome
    /\ UNCHANGED <<inputVars, mainVars, q, unfinished, error_counter, lock,
                   worker, tmp, raised, gets, dones, extracted, logged>>

\* with lock:  (line 176)
Acquire(w) ==
    /\ pc[w] = "except"
    /\ LockAvailable
    /\ lock' = w
    /\ pc' = [pc EXCEPT ![w] = "inc_read"]
    /\ UNCHANGED <<inputVars, mainVars, q, unfinished, error_counter, output,
                   worker, frame, wbuf, tmp, raised, histVars>>

\* error_counter.value += 1  (line 177): the read ...
ReadCounter(w) ==
    /\ pc[w] = "inc_read"
    /\ tmp' = [tmp EXCEPT ![w] = error_counter]
    /\ pc' = [pc EXCEPT ![w] = "inc_write"]
    /\ UNCHANGED <<inputVars, mainVars, q, unfinished, error_counter, lock,
                   output, worker, frame, wbuf, raised, histVars>>

\* ... and the write, after which the with-block releases the lock.
WriteCounter(w) ==
    /\ pc[w] = "inc_write"
    /\ error_counter' = tmp[w] + 1
    /\ lock' = 0
    /\ pc' = [pc EXCEPT ![w] = "finally"]
    /\ UNCHANGED <<inputVars, mainVars, q, unfinished, output, worker, frame,
                   wbuf, tmp, raised, histVars>>

\* finally: q.task_done()  (lines 179-182).  task_done raises ValueError when
\* no task is unfinished; that, or an exception the except clause did not
\* catch, leaves the while loop and ends the worker.
TaskDone(w) ==
    /\ pc[w] = "finally"
    /\ IF unfinished = 0
       THEN /\ pc' = [pc EXCEPT ![w] = "dead"]
            /\ UNCHANGED <<unfinished, dones>>
       ELSE /\ unfinished' = unfinished - 1
            /\ dones' = [dones EXCEPT ![worker[w].counter] = @ + 1]
            /\ pc' = [pc EXCEPT ![w] =
                        IF raised[w] /= "none" /\ ~Caught(raised[w])
                        THEN "dead" ELSE "get"]
    /\ raised' = [raised EXCEPT ![w] = "none"]
    /\ worker' = [worker EXCEPT ![w] = NoJob]
    /\ frame' = [frame EXCEPT ![w] = 0]
    /\ UNCHANGED <<inputVars, mainVars, q, error_counter, lock, output, wbuf,
                   tmp, gets, outcome, extracted, logged>>

\* ------------------------------------------------------------------- Next
Next ==
    \/ ClearOutput
    \/ StartWorker
    \/ CountFile
    \/ CountDone
    \/ EnqueueFile
    \/ EnqueueDone
    \/ Join
    \/ Exit
    \/ \E w \in WorkerIds : Get(w)
    \/ \E w \in WorkerIds : RunSong(w)
    \/ \E w \in WorkerIds : OpenAppend(w)
    \/ \E w \in WorkerIds : Flush(w)
    \/ \E w \in WorkerIds : Acquire(w)
    \/ \E w \in WorkerIds : ReadCounter(w)
    \/ \E w \in WorkerIds : WriteCounter(w)
    \/ \E w \in WorkerIds : TaskDone(w)

Spec == Init /\ [][Next]_vars

\* The coordinator and each worker are processes of their own, each
\* scheduled by the operating system: a process that can take a step
\* eventually takes one.
MainStep ==
    \/ ClearOutput \/ StartWorker \/ CountFile \/ CountDone
    \/ EnqueueFile \/ EnqueueDone \/ Join \/ Exit
WorkerStep(w) ==
    \/ Get(w) \/ RunSong(w) \/ OpenAppend(w) \/ Flush(w)
    \/ Acquire(w) \/ ReadCounter(w) \/ WriteCounter(w) \/ TaskDone(w)
FairSpec ==
    /\ Spec
    /\ WF_vars(MainStep)
    /\ \A w \in WorkerIds : WF_vars(WorkerStep(w))

\* ==================================================================
\* Properties
\* ==================================================================
\* The jobs of the run, from the listing alone: one per mp3 file, numbered
\* in listing order.
NumJobs == Cardinality({j \in 1..Len(files) : files[j].suffix = "mp3"})
SeqOf(j) == Cardinality({k \in 1..j : files[k].suffix = "mp3"})
FileOfSeq(n) == files[CHOOSE j \in 1..Len(files) : files[j].suffix = "mp3" /\ SeqOf(j) = n]
Enqueued == 1..(current_song_counter - 1)
Joined == pcMain \in {"done", "exited"}
CountOutcome(o) == Cardinality({n \in SeqNums : outcome[n] = <<o>>})
Holders(n) == {w \in WorkerIds : worker[w].counter = n}
InQueue(n) == {p \in 1..Len(q) : q[p].counter = n}
Handling == {"except", "inc_read", "inc_write"}

\* C1 (conservation): once q.join() has returned, every job of the listing
\* has ended in exactly one of analyzed / skipped / failed, and the three
\* counts sum to the number of jobs.
C1_Conservation ==
    Joined =>
        /\ \A n \in 1..NumJobs :
              /\ Len(outcome[n]) = 1
              /\ outcome[n][1] \in {"analyzed", "skipped", "failed"}
        /\ CountOutcome("analyzed") + CountOutcome("skipped") + CountOutcome("failed")
              = NumJobs

C1_Witness ==
    /\ Joined
    /\ pool_size = num_workers
    /\ NumJobs = MaxFiles
    /\ CountOutcome("failed") >= 1
    /\ CountOutcome("analyzed") + CountOutcome("skipped") >= 1

\* A sequence number is handed out by q.get() at most once and processed at
\* most once, no two workers hold the same job, and every job that was put
\* is either still in the queue (once) or has been handed to a worker (once).
C2_DeliveredOnce ==
    /\ \A n \in SeqNums :
          /\ gets[n] <= 1
          /\ Len(outcome[n]) <= gets[n]
          /\ Cardinality(Holders(n)) <= 1
          /\ n \notin Enqueued => gets[n] = 0 /\ InQueue(n) = {}
    /\ \A n \in Enqueued : Cardinality(InQueue(n)) + gets[n] = 1
    /\ (pcMain /= "exited") =>
          \A n \in Enqueued : gets[n] = Cardinality(Holders(n)) + dones[n]

\* C2 (at-most-once delivery): in every interleaving of puts and gets a job
\* is handed out at most once and processed at most once, no two workers
\* hold the same job, every job that was put is in the queue or was handed
\* to a worker; and a descriptor leaves the queue only from its head and
\* only into the hands of one worker that held no job, the other workers'
\* jobs unchanged.
C2_AtMostOnce ==
    /\ []C2_DeliveredOnce
    /\ [][q' /= q =>
            \/ /\ Len(q') = Len(q) + 1
               /\ SubSeq(q', 1, Len(q)) = q
            \/ /\ q /= <<>>
               /\ q' = Tail(q)
               /\ \E w \in WorkerIds :
                     /\ worker[w] = NoJob
                     /\ worker'[w] = Head(q)
                     /\ \A v \in WorkerIds \ {w} : worker'[v] = worker[v]]_vars

C2_Witness ==
    /\ pcMain = "enqueue"
    /\ \E w1, w2 \in WorkerIds :
          /\ w1 /= w2
          /\ worker[w1].counter /= 0
          /\ worker[w2].counter /= 0

\* C3 (error isolation): a failing job never ends the worker that ran it and
\* never stops the run (until the process exits some step is always
\* possible), and once join has returned every job has been marked done and
\* the ErrorCounter holds exactly one count per failed job.
C3_ErrorIsolation ==
    /\ \A w \in WorkerIds : pc[w] /= "dead"
    /\ pcMain = "exited" \/ ENABLED Next
    /\ Joined =>
          /\ \A n \in 1..NumJobs : dones[n] = 1
          /\ error_counter = CountOutcome("failed")

\* The one worker of a pool of 1 is processing a further job after a failure
\* was counted.
C3_Witness ==
    /\ pool_size = 1
    /\ error_counter = 1
    /\ pc[1] \in {"song", "write", "flush"}

\* C4 (no lost updates): the read and the write of the increment happen
\* with the lock held by the incrementing worker, the counter never
\* decreases, every failure is either counted or still on its way to the
\* increment, and after join the counter is the number of failed jobs.
C4_LockHeld ==
    \A w \in WorkerIds : pc[w] \in {"inc_read", "inc_write"} => lock = w

C4_Counted ==
    /\ error_counter + Cardinality({w \in WorkerIds : pc[w] \in Handling})
          = CountOutcome("failed")
    /\ Joined => error_counter = CountOutcome("failed")

C4_NoLostUpdates ==
    /\ [](C4_LockHeld /\ C4_Counted)
    /\ [][error_counter' >= error_counter]_vars

\* One worker is between its read and its write while another failed worker
\* waits for the lock.
C4_Witness ==
    \E w1, w2 \in WorkerIds :
        /\ pc[w1] = "inc_write"
        /\ pc[w2] = "except"

\* C5 (join barrier): q.join() has returned only if the queue is empty, every
\* job of the listing was put, got and marked done, and no worker is still
\* processing one.
C5_JoinBarrier ==
    Joined =>
        /\ q = <<>>
        /\ unfinished = 0
        /\ Enqueued = 1..NumJobs
        /\ \A n \in Enqueued : gets[n] = 1 /\ dones[n] = 1
        /\ \A w \in WorkerIds : pc[w] \in {"unstarted", "get", "terminated"}

C5_Witness ==
    /\ pcMain = "done"
    /\ pool_size = num_workers
    /\ NumJobs = MaxFiles
    /\ \A n \in 1..NumJobs : dones[n] = 1

\* ------------------------------------------------------------------
\* What the listing alone says about each job (a sequential reading of
\* processor_job, used as the reference the runs are compared with).
RefFails(f) ==
    \/ f.meta /= "ok"
    \/ /\ f.length >= min_song_length
       /\ (f.decode /= "ok" \/ f.write /= "ok")
RefRowCount(f) ==
    IF f.meta /= "ok" \/ f.length < min_song_length \/ f.decode /= "ok" THEN 0
    ELSE IF f.write /= "ok" THEN f.failAt - 1
    ELSE f.frames
PathOfSeq(n) == CHOOSE j \in 1..Len(files) : files[j].suffix = "mp3" /\ SeqOf(j) = n
RefRowAt(n, j, k) ==
    << [field |-> "counter", val |-> n, frame |-> 0],
       [field |-> "title",   val |-> j, frame |-> 0],
       [field |-> "artist",  val |-> j, frame |-> 0],
       [field |-> "genre",   val |-> j, frame |-> 0],
       [field |-> "mfcc",    val |-> j, frame |-> k] >>
RefRow(n, k) == RefRowAt(n, PathOfSeq(n), k)
RowLen == Len(RefRowAt(0, 0, 0))
ExpectedRows ==
    UNION {{RefRow(n, k) : k \in 1..RefRowCount(FileOfSeq(n))} : n \in 1..NumJobs}
ExpectedErrors == Cardinality({n \in 1..NumJobs : RefFails(FileOfSeq(n))})

\* The output read back row by row.
NumRows == Len(output) \div RowLen
OutputRow(r) == SubSeq(output, RowLen * (r - 1) + 1, RowLen * r)
OutputRows == {OutputRow(r) : r \in 1..NumRows}
\* The fields of the output that carry sequence number n as a row's first field.
RowsOf(n) == Cardinality({p \in 1..Len(output) :
                 output[p].field = "counter" /\ output[p].val = n})

C7_FailedJobEmitsNoRow ==
    Joined => \A n \in 1..NumJobs : outcome[n] = <<"failed">> => RowsOf(n) = 0

\* The output is a whole number of rows, each of them exactly the row of one
\* frame of one enqueued job, no row occurs twice, and every row a job has
\* finished appending is still there.
C8_WholeRows ==
    pcMain /= "clear" =>
        LET path == [n \in Enqueued |-> PathOfSeq(n)]
            \* the (sequence number, frame) each row of the output claims to be
            key(r) == <<output[RowLen * (r - 1) + 1].val, output[RowLen * r].frame>>
            keys == {key(r) : r \in 1..NumRows}
        IN  /\ Len(output) = RowLen * NumRows
            /\ \A r \in 1..NumRows :
                  /\ key(r)[1] \in Enqueued
                  /\ key(r)[2] \in 1..files[path[key(r)[1]]].frames
                  /\ OutputRow(r) = RefRowAt(key(r)[1], path[key(r)[1]], key(r)[2])
            /\ Cardinality(keys) = NumRows
            /\ \A n \in Enqueued : \A k \in 1..MaxFrames :
                  (\/ \E w \in WorkerIds : worker[w].counter = n /\ k < frame[w]
                   \/ dones[n] >= 1 /\ k <= RefRowCount(files[path[n]]))
                     => <<n, k>> \in keys

\* C8 (row atomicity): from the truncation on, with workers appending
\* concurrently, the output is always whole rows, each the row of one frame
\* of one job, none twice, none lost; and every step that changes the output
\* adds to its end exactly one whole row, the row of the frame the appending
\* worker is at, leaving the rows of the other workers as they were.
C8_RowAtomicity ==
    /\ []C8_WholeRows
    /\ [][(pcMain /= "clear" /\ output' /= output) =>
            \E w \in WorkerIds :
                /\ worker[w].counter \in Enqueued
                /\ output' = output \o RefRow(worker[w].counter, frame[w])]_vars

\* Two workers are inside their write loops at once and rows of both jobs
\* are already in the output.
C8_Witness ==
    /\ \E w1, w2 \in WorkerIds :
          /\ w1 /= w2
          /\ pc[w1] = "flush"
          /\ pc[w2] = "flush"
    /\ RowsOf(1) >= 1
    /\ RowsOf(2) >= 1

\* C9 (pool-size independence): whatever the pool size and the interleaving,
\* after join the multiset of output rows and the ErrorCounter are the ones
\* the listing alone determines; so two runs on the same listing with
\* different pool sizes end with the same rows and the same count.
C9_PoolSizeIndependence ==
    Joined =>
        /\ OutputRows = ExpectedRows
        /\ NumRows = Cardinality(ExpectedRows)
        /\ Len(output) = RowLen * NumRows
        /\ error_counter = ExpectedErrors

\* A run of the full pool that ends with the rows in another order than the
\* one a single worker produces (job 2's row first).
C9_Witness ==
    /\ Joined
    /\ pool_size = num_workers
    /\ NumRows >= 2
    /\ output[1].val = 2
    /\ RowsOf(1) >= 1

\* C10 as claimed: a sink write failure is never handled by the except
\* clause of the job boundary (it is not counted, it propagates).
C10_SinkErrorPropagates ==
    \A w \in WorkerIds : raised[w] = "SinkWriteError" => pc[w] \notin Handling

\* C10 as amended: a sink write failure is caught at the job boundary like
\* the other failures: the worker goes through the handler, the failure is
\* counted before task_done, the worker does not end, and after join the
\* ErrorCounter includes every job whose append failed.
C10_SinkErrorSwallowed ==
    /\ \A w \in WorkerIds :
          /\ pc[w] /= "dead"
          /\ raised[w] = "SinkWriteError" =>
                /\ pc[w] \in Handling \cup {"finally"}
                /\ pc[w] = "finally" => error_counter >= 1
    /\ Joined => error_counter = ExpectedErrors

\* A worker whose job's append failed has counted it and is about to call
\* task_done.
C10_Witness ==
    \E w \in WorkerIds :
        /\ raised[w] = "SinkWriteError"
        /\ pc[w] = "finally"
        /\ error_counter >= 1

\* ------------------------------------------------------------------
IsPrefix(a, b) == Len(a) <= Len(b) /\ SubSeq(b, 1, Len(a)) = a
\* The descriptors that exist: in the queue or in a worker's hands.
LiveDescs == {q[p] : p \in 1..Len(q)} \cup
             {worker[w] : w \in {v \in WorkerIds : worker[v].counter /= 0}}

\* C11 (truncate once, then append only): the output is truncated by the
\* script's first step, while no worker is started (so before any row);
\* the script never comes back to the truncation, and from then on every
\* step leaves what the output holds in place and at most adds to its end.
C11_TruncateOnceThenAppend ==
    /\ [](pcMain = "clear" => \A w \in WorkerIds : pc[w] = "unstarted")
    /\ [][pcMain = "clear" => output' = <<>> /\ pcMain' = "start"]_vars
    /\ [][pcMain /= "clear" => pcMain' /= "clear" /\ IsPrefix(output, output')]_vars

\* Rows of two jobs are in the output and a worker is about to add one more.
C11_Witness ==
    /\ RowsOf(1) >= 1
    /\ RowsOf(2) >= 1
    /\ \E w \in WorkerIds : pc[w] = "flush"

\* C12 (sequence numbering): the descriptors put so far are numbered
\* 1, 2, ... in the order of the walk, one number per mp3 file walked (a
\* file that is not an mp3 is not put and takes no number): the counter is
\* one more than the mp3 files walked, the queue holds consecutive numbers
\* ending at the last one put, and every descriptor's number is the rank of
\* its file among the mp3 files of the listing.
C12_SequenceNumbering ==
    /\ pcMain = "enqueue" =>
          current_song_counter - 1 =
              Cardinality({j \in 1..(i - 1) : files[j].suffix = "mp3"})
    /\ pcMain \in {"join", "done", "exited"} => current_song_counter - 1 = NumJobs
    /\ \A p \in 1..Len(q) : q[p].counter = current_song_counter - 1 - (Len(q) - p)
    /\ \A d \in LiveDescs :
          /\ files[d.file_path].suffix = "mp3"
          /\ d.counter = SeqOf(d.file_path)
          /\ d.counter >= 1

\* A file that is no mp3 was walked first: the mp3 after it got number 1.
C12_Witness ==
    /\ Len(q) = 1
    /\ q[1].counter = 1
    /\ q[1].file_path > 1

\* C13 (rows carry their job's sequence number): the first field of every
\* row of the output is the sequence number of the job whose file the row's
\* other fields come from (the rank of that file among the listing's mp3
\* files), whichever worker wrote it and however the other jobs ended.
C13_RowCarriesSequenceNumber ==
    pcMain /= "clear" =>
        \A r \in 1..NumRows :
            LET first == output[RowLen * (r - 1) + 1]
                title == output[RowLen * (r - 1) + 2]
                last  == output[RowLen * r]
            IN  /\ first.field = "counter"
                /\ title.field = "title"
                /\ last.field = "mfcc"
                /\ title.val = last.val
                /\ title.val \in 1..Len(files)
                /\ first.val = SeqOf(title.val)

\* Job 1 ended without being analyzed (skipped or failed), a file that is
\* no mp3 or job 1 came before job 2, and job 2's rows are in the output.
C13_Witness ==
    /\ Joined
    /\ outcome[1] /= <<"analyzed">>
    /\ RowsOf(1) = 0
    /\ RowsOf(2) = MaxFrames

\* ------------------------------------------------------------------
\* C14 (drain liveness): with every process scheduled fairly, every job that
\* is put is eventually got and marked done, and q.join() eventually
\* returns, for every listing and pool size.
C14_DrainLiveness ==
    /\ \A n \in SeqNums : (n \in Enqueued) ~> (gets[n] = 1 /\ dones[n] = 1)
    /\ <>Joined

\* A pool of one worker has drained a full listing of jobs.
C14_Witness ==
    /\ pcMain = "done"
    /\ pool_size = 1
    /\ NumJobs = MaxFiles
    /\ \A n \in 1..NumJobs : gets[n] = 1 /\ dones[n] = 1

\* C15 (task_done once per got job): on every path task_done is signalled
\* once for a job, only when its processing is over and the worker has let
\* go of it; a job no worker holds any more has been signalled; and at every
\* moment task_done calls <= get calls <= put calls, job by job, with the
\* queue's unfinished count the difference between puts and task_dones.
C15_TaskDoneOncePerGet ==
    /\ \A n \in SeqNums :
          /\ dones[n] <= gets[n]
          /\ gets[n] <= (IF n \in Enqueued THEN 1 ELSE 0)
          /\ dones[n] = 1 => Len(outcome[n]) = 1 /\ Holders(n) = {}
          /\ (gets[n] = 1 /\ Holders(n) = {}) => dones[n] = 1
    /\ \A w \in WorkerIds :
          /\ pc[w] \in {"unstarted", "get", "terminated"} => worker[w] = NoJob
          /\ pc[w] \in {"song", "write", "flush", "finally"} \cup Handling =>
                /\ worker[w].counter \in Enqueued
                /\ dones[worker[w].counter] = 0
    /\ unfinished = Cardinality(Enqueued) - Cardinality({n \in SeqNums : dones[n] = 1})

\* One job failed and was marked done while another is got and not yet done.
C15_Witness ==
    \E n, m \in SeqNums :
        /\ outcome[n] = <<"failed">>
        /\ dones[n] = 1
        /\ gets[m] = 1
        /\ dones[m] = 0

\* C16 (total_jobs consistency): nothing is put or got before the pre-scan
\* is over; from then on total_songs is the number of mp3 files of the
\* listing, every descriptor carries that value and a sequence number
\* between 1 and it, and after the enqueue loop as many jobs were put.
C16_TotalJobsConsistent ==
    /\ pcMain \in {"clear", "start", "count"} =>
          /\ q = <<>>
          /\ current_song_counter = 1
          /\ \A n \in SeqNums : gets[n] = 0
    /\ pcMain \notin {"clear", "start", "count"} => total_songs = NumJobs
    /\ \A d \in LiveDescs :
          /\ d.total = NumJobs
          /\ 1 <= d.counter
          /\ d.counter <= d.total
    /\ pcMain \in {"join", "done", "exited"} => current_song_counter - 1 = total_songs

\* Two descriptors wait in the queue, both carrying the same total.
C16_Witness ==
    /\ Len(q) >= 2
    /\ q[1].total = q[2].total
    /\ q[2].counter = q[2].total

\* C17 (short songs are rejected before extraction): librosa_mfcc_extract is
\* only ever called for a song whose metadata was read and whose length is
\* at least min_song_length; so after join a too-short song whose audio
\* would not decode has ended skipped and is not counted, while a song
\* whose metadata read fails has ended failed and is counted.
C17_ShortRejectedBeforeExtraction ==
    /\ \A n \in extracted :
          /\ FileOfSeq(n).meta = "ok"
          /\ FileOfSeq(n).length >= min_song_length
    /\ Joined =>
          /\ \A n \in 1..NumJobs :
                LET f == FileOfSeq(n) IN
                /\ (f.meta = "ok" /\ f.length < min_song_length /\ f.decode /= "ok") =>
                      outcome[n] = <<"skipped">>
                /\ f.meta /= "ok" => outcome[n] = <<"failed">>
          /\ error_counter = ExpectedErrors

\* After join: a short song whose audio would not decode has ended skipped,
\* a short song whose metadata read failed is the one failure counted.
C17_Witness ==
    /\ Joined
    /\ error_counter = 1
    /\ \E n, m \in 1..NumJobs :
          /\ FileOfSeq(n).meta = "ok"
          /\ FileOfSeq(n).length < min_song_length
          /\ FileOfSeq(n).decode = "DecodeError"
          /\ outcome[n] = <<"skipped">>
          /\ FileOfSeq(m).meta = "MetadataError"
          /\ FileOfSeq(m).length < min_song_length
          /\ outcome[m] = <<"failed">>

\* C18 as claimed, read generously: when the process has exited after a run
\* with at least one job, the last value of the ErrorCounter the program
\* reported is the counter's final value.
C18_FinalCountReported ==
    (pcMain = "exited" /\ NumJobs >= 1) => logged = <<error_counter>>

\* C19 (daemon workers do not prevent exit): no worker ever leaves its loop
\* while the coordinator lives; when join has returned the queue is empty
\* and every started worker is blocked in q.get(); the process then does
\* reach its exit, and at exit every started worker is terminated.
C19_DaemonsEndWithCoordinator ==
    /\ [](pcMain /= "exited" => \A w \in WorkerIds : pc[w] \notin {"terminated", "dead"})
    /\ [](pcMain = "done" => q = <<>> /\ \A w \in 1..pool_size : pc[w] = "get")
    /\ [](pcMain = "exited" => \A w \in 1..pool_size : pc[w] = "terminated")
    /\ (pcMain = "done") ~> (pcMain = "exited")

\* The process has exited after a run with jobs, the full pool terminated
\* with it.
C19_Witness ==
    /\ pcMain = "exited"
    /\ pool_size = num_workers
    /\ NumJobs >= 1
    /\ \A w \in WorkerIds : pc[w] = "terminated"

\* C20 (effects precede completion): a job that was marked done has all the
\* rows it will ever have in the output, and when it failed it has been
\* counted; so once join has returned no step changes the output or the
\* ErrorCounter.
C20_DoneJobsAreSettled ==
    /\ \A n \in SeqNums : dones[n] >= 1 => RowsOf(n) = RefRowCount(FileOfSeq(n))
    /\ Cardinality({n \in SeqNums : dones[n] >= 1 /\ outcome[n] = <<"failed">>})
          <= error_counter

C20_EffectsPrecedeCompletion ==
    /\ []C20_DoneJobsAreSettled
    /\ [][Joined => output' = output /\ error_counter' = error_counter]_vars

\* Join has returned on a run that appended rows and counted a failure.
C20_Witness ==
    /\ pcMain = "done"
    /\ NumRows >= 1
    /\ error_counter >= 1

====
